---- MODULE Spec2Model ----
(***************************************************************************)
(* Model of the rs_terminal session layer: the shared session registry     *)
(* (AppState.sessions), the WebSocket handler handle_socket, the           *)
(* WebTransport accept task of start_webtransport_server and the bridging  *)
(* engine handle_terminal_session with the PTY it drives.                  *)
(*                                                                         *)
(* Every task is one tokio task.  A step of a task is the code between two *)
(* suspension points (.await); acquiring the registry mutex is a step of   *)
(* its own, so that two tasks contend for the lock as they do on the       *)
(* multi-threaded runtime.                                                 *)
(***************************************************************************)
EXTENDS Integers, Sequences, FiniteSets, TLC

\* ------------------------------------------------------------------ bounds
\* Number of connections accepted, each served by a tokio task of its own.
NumTasks == 2
\* Longest total payload the observed session receives.
MaxInput == 4
\* Most operations a direct caller makes on its backend.
MaxOps == 4
\* Most writes the caller of the command interpreter makes.
MaxCmds == 1
\* The capacity of the channels of WindowsPty (100 in the code).
ChannelCap == 1

Tasks == 1..NumTasks

\* A session id "session-N" is modelled by the number N.
NoId == -1

\* Payloads of inbound Text/Binary messages (sequences of bytes).
NoPayloads == {<< >>}
Payloads == {<<1>>, <<2, 3>>}
\* "x\n" and "exit\n", for the simulated backend.
Commands == {<<1, 0>>, <<4, 0>>}

\* Lines for the simulated backend's command interpreter: "ls", "pwd",
\* "echo", "echo x", "exit", "help", "x", a line of one blank and an empty
\* line, each with its '\n', and two commands in one write.
ShellInputs ==
    {<<8, 0>>, <<5, 0>>, <<6, 0>>, <<6, 7, 1, 0>>, <<4, 0>>, <<9, 0>>, <<1, 0>>,
     <<7, 0>>, <<0>>, <<5, 0, 9, 0>>}

\* let mut pty_buffer = [0u8; 4096]
PtyBufferSize == 4096

\* The room in the buffer a direct caller of the simulated backend reads
\* into: less than a reply, and a whole short reply.
Caps == {1, 2}

\* PtyConfig.cwd: None, or Some("/tmp").
NoCwd == "none"
Cwds == {NoCwd, "/tmp"}

\* Chunks of PTY output: an ASCII letter; a complete two-byte sequence and a
\* chunk that ends in the middle of one.
OneChunk == {<<1>>}
Chunks == {<<1>>, <<2, 3>>, <<2>>}

VARIABLES
    sessions,    \* AppState.sessions: Vec<String>; each entry carries, as a
                 \* history tag the code never reads, the task that pushed it
    lock,        \* holder of the tokio Mutex around sessions (0: free)
    handler,     \* the handler a task runs: "none", "hts"
                 \* (handle_terminal_session) or "ws" (handle_socket)
    pc,          \* position of each task in its handler
    conn_id,     \* conn_id (handle_terminal_session) / session_id (handle_socket)
    connection,  \* the task's connection: "none", "open", "closed"
    pty,         \* the task's PTY: backend kind, handle, child_exited (or
                 \* !alive) flag, OS process, bytes delivered to the process,
                 \* number of kill() calls, state of the simulated backend
    lastEvent,   \* history of the observed task: the event its loop processed last
    calls,       \* history of the observed task: the notification and cleanup
                 \* calls it made outside the loop, in order, with their results
    accepted,    \* history of the observed task: the bytes of the messages
                 \* whose PTY write returned Ok
    forwarded,   \* history of the observed task: the chunk its loop read last
                 \* from the PTY, with the message sent for it and the result
                 \* of the send (empty before the first chunk)
    ops,         \* history of the observed task: the AsyncPty operations a direct
                 \* caller of the backend made, in order, with their results
    shutdown,    \* a process-wide shutdown has been signalled
    made         \* history of the observed task: the call of a selection
                 \* function it made, with the platform, the shell table, the
                 \* shell configuration used, the factories invoked and the
                 \* result

vars == <<sessions, lock, handler, pc, conn_id, connection, pty, lastEvent, calls,
          accepted, forwarded, ops, shutdown, made>>

\* The variables no step of a connection handler reads or writes.
aside == <<ops, shutdown, made>>

\* The history variables follow one task, the observed session; the other
\* tasks run the same code next to it.  It is the first connection.
Observed == CHOOSE t \in Tasks : \A u \in Tasks : t <= u

Observe(t, old, new) == IF t = Observed THEN new ELSE old

NoPty == [kind |-> "none", handle |-> "none", child_exited |-> FALSE, proc |-> "none",
          input |-> << >>, kills |-> 0, out |-> << >>, bg |-> << >>,
          alock |-> FALSE, olock |-> FALSE, cwd |-> NoCwd,
          wq |-> << >>, rq |-> << >>, worker |-> "none", rwaker |-> FALSE,
          woken |-> FALSE, pend |-> << >>, freed |-> FALSE,
          child |-> "shell", shown |-> 0,
          printed |-> << >>, pipe |-> << >>, chan |-> << >>, rbuf |-> << >>]

\* ---------------------------------------------------------------- registry
Entry(id, t) == [id |-> id, owner |-> t]

\* sessions.push(conn_id.clone())
Push(s, id, t) == Append(s, Entry(id, t))

\* sessions.retain(|id| id != &conn_id)
Retain(s, id) == SelectSeq(s, LAMBDA e : e.id # id)

\* The ids in the registry, and the entries pushed by task t.
Ids(s) == {s[i].id : i \in 1..Len(s)}
OwnedBy(s, t) == SelectSeq(s, LAMBDA e : e.owner = t)

\* The registry operations the REST handlers call.  Each takes the lock of
\* the registry for its own duration.  get(id) -> Option<Session>
GetSession(s, id) == id \in Ids(s)

\* update(session) -> bool: whether the session was in the registry
UpdateSession(s, id) == id \in Ids(s)

\* remove(id) -> Option<Session>: the registry after the call
RemoveSession(s, id) == Retain(s, id)

\* The session ids a request may name.
RestIds == 0..(NumTasks - 1)

\* ------------------------------------------------------------------- locks
\* state.sessions.lock().await: the task is suspended until the mutex is free.
LockWait == {"wt_lock", "hts_lock", "err_lock", "end_lock", "ws_lock", "ws_end_lock"}

AfterLock(p) ==
    CASE p = "wt_lock"     -> "wt_len"
      [] p = "hts_lock"    -> "hts_push"
      [] p = "err_lock"    -> "err_retain"
      [] p = "end_lock"    -> "end_retain"
      [] p = "ws_lock"     -> "ws_push"
      [] p = "ws_end_lock" -> "ws_end_retain"

Lock(t) ==
    /\ pc[t] \in LockWait
    /\ lock = 0
    /\ lock' = t
    /\ pc' = [pc EXCEPT ![t] = AfterLock(pc[t])]
    /\ UNCHANGED <<aside, forwarded, sessions, handler, conn_id, connection, pty, lastEvent, calls, accepted>>

\* ----------------------------------------------------------------- backends
\* The implementations of AsyncPty.  A byte is a small number: 0 is '\n', 1 an
\* ASCII letter, 2 the lead byte and 3 the continuation byte of a two-byte
\* UTF-8 sequence, 7 a blank; 4, 5, 6, 8 and 9 stand for the letters of "exit",
\* "pwd", "echo", "ls" and "help".  In the output of the simulated backend 10
\* stands for the directory listing, 11 for the configured working directory,
\* 12 for "/", 13 for "\r\n", 14 for "Exiting Memory PTY...\r\n", 15 for the
\* help text and 16 for "Command not found: ".
Backends == {"unix", "windows", "tokio", "expectrl", "memory"}

\* The backend create_pty() returns on a unix build, and on a build that has
\* no native PTY (or whose WindowsPty failed).
UnixBuild == {"unix"}
MemoryBuild == {"memory"}

\* buf[..n]
Take(buf, n) == SubSeq(buf, 1, n)

\* "Memory PTY initialized for command: ...\r\n"
Welcome == <<1>>

\* The PTY a factory returns: child_exited = false / alive = true; MemoryPty
\* starts with the welcome message in its output buffer.  proc is the OS
\* process ("running", "exited" with its status not collected, "reaped");
\* bg holds the tasks MemoryPty::poll_write spawned; alock and olock tell
\* whether such a task holds the mutex of alive / of output_buffer.
\* WindowsPty: wq and rq are the write and the read channel, worker the
\* position of the worker thread ("read": in master.read, "recv": at
\* write_rx.try_recv, "gone": returned), rwaker whether the read channel
\* holds the waker of the caller's task, woken whether the suspended caller
\* has been woken, pend the buffer of its suspended write and freed whether
\* the worker has removed an item from wq since it was suspended.  child is
\* the program config.command names: "shell" prints whenever it likes, "cat"
\* prints what it is sent and nothing else; shown counts the bytes of input
\* a cat has printed back.
\* The output stream of a native child: printed is all it has printed, pipe
\* what of it the backend has not taken from the OS yet, chan the messages in
\* the read channel of WindowsPty (data, the empty EOF message, an error) and
\* rbuf the unread rest of its read_buffer.
NewPty(kind, cwd) ==
    [NoPty EXCEPT !.kind = kind, !.handle = "open", !.cwd = cwd,
                  !.worker = IF kind = "windows" THEN "read" ELSE "none",
                  !.proc = IF kind = "memory" THEN "none" ELSE "running",
                  !.out = IF kind = "memory" THEN Welcome ELSE << >>]

\* input_str.lines()
RECURSIVE Lines(_)
Lines(s) ==
    IF s = << >> THEN << >>
    ELSE IF \A i \in 1..Len(s) : s[i] # 0 THEN <<s>>
    ELSE LET k == CHOOSE i \in 1..Len(s) : s[i] = 0 /\ \A j \in 1..(i - 1) : s[j] # 0
         IN <<SubSeq(s, 1, k - 1)>> \o Lines(SubSeq(s, k + 1, Len(s)))

\* line.trim()
Trim(l) ==
    LET keep == {i \in 1..Len(l) : l[i] # 7}
    IN IF keep = {} THEN << >>
       ELSE SubSeq(l, CHOOSE i \in keep : \A j \in keep : i <= j,
                      CHOOSE i \in keep : \A j \in keep : i >= j)

\* line.trim_start_matches("echo")
RECURSIVE TrimStartEcho(_)
TrimStartEcho(l) == IF l # << >> /\ l[1] = 6 THEN TrimStartEcho(Tail(l)) ELSE l

\* process_input meets a line "exit".
HasExit(data) == \E i \in 1..Len(Lines(data)) : Trim(Lines(data)[i]) = <<4>>

\* Variant of Reply in which "pwd" ignores the configured directory.
ReplyIgnoringCwd(line, cwd) ==
    LET trimmed == Trim(line)
    IN CASE trimmed = <<8>> -> <<10>>
         [] trimmed = <<5>> -> <<12, 13>>
         [] trimmed = <<6>> -> Trim(TrimStartEcho(line)) \o <<13>>
         [] trimmed = <<4>> -> <<14>>
         [] trimmed = <<9>> -> <<15>>
         [] OTHER -> IF trimmed # << >> THEN <<16>> \o trimmed \o <<13>> ELSE << >>

\* match trimmed { .. }: what one line adds to the response.  The arm
\* "pwd" | "cd " prints cwd or "/" (a trimmed line never equals "cd "); the
\* arm "echo" is taken by the bare word only.
Reply(line, cwd) ==
    LET trimmed == Trim(line)
    IN CASE trimmed = <<8>> -> <<10>>
         [] trimmed = <<5>> -> IF cwd # NoCwd THEN <<11, 13>> ELSE <<12, 13>>
         [] trimmed = <<6>> -> Trim(TrimStartEcho(line)) \o <<13>>
         [] trimmed = <<4>> -> <<14>>
         [] trimmed = <<9>> -> <<15>>
         [] OTHER -> IF trimmed # << >> THEN <<16>> \o trimmed \o <<13>> ELSE << >>

\* The response process_input builds: the replies to the lines, in order.
RECURSIVE Replies(_, _)
Replies(ls, cwd) ==
    IF ls = << >> THEN << >> ELSE Reply(Head(ls), cwd) \o Replies(Tail(ls), cwd)

Response(data, cwd) == Replies(Lines(data), cwd)

\* std::cmp::min
Min(a, b) == IF a <= b THEN a ELSE b

\* poll_write as seen through AsyncWriteExt::write.  A result is Ok(n) or an
\* error of class err; "panic" is try_lock().unwrap() on a held mutex.
\*   UnixPty, TokioPtyProcessPty: BrokenPipe once child_exited; otherwise the
\*     one write(2) takes the first n bytes (1 <= n <= len, 0 of an empty
\*     buffer) or fails.
\*   WindowsPty: BrokenPipe once child_exited or when the worker is gone;
\*     otherwise the whole buffer is queued.
\*   ExpectrlPty: delegates to the session, child_exited is not looked at.
\*   MemoryPty: BrokenPipe once alive is false; otherwise Ok(len) and a task
\*     is spawned to process the input.
PtyWrite(p, buf) ==
    LET partial == {[ok |-> TRUE, n |-> n, err |-> "none",
                     pty |-> [p EXCEPT !.input = @ \o Take(buf, n)]] :
                        n \in (IF Len(buf) = 0 THEN {0} ELSE 1..Len(buf))}
        whole == [ok |-> TRUE, n |-> Len(buf), err |-> "none",
                  pty |-> [p EXCEPT !.input = @ \o buf]]
        fails(e) == [ok |-> FALSE, n |-> 0, err |-> e, pty |-> p]
    IN CASE p.kind \in {"unix", "tokio"} ->
               IF p.child_exited THEN {fails("BrokenPipe")}
               ELSE partial \cup {fails("Io")}
         [] p.kind = "windows" ->
               IF p.child_exited THEN {fails("BrokenPipe")}
               ELSE {whole, fails("BrokenPipe")}
         [] p.kind = "expectrl" -> partial \cup {fails("Io")}
         [] p.kind = "memory" ->
               IF p.alock THEN {fails("panic")}
               ELSE IF p.child_exited THEN {fails("BrokenPipe")}
               ELSE {[whole EXCEPT !.pty.bg = Append(@, [data |-> buf, pc |-> "start"])]}

\* poll_read as seen through AsyncReadExt::read: "eof" is Ok(0), "data" is
\* Ok(n) with n > 0 and the chunk read, "err" is Err(e), "panic" is
\* try_lock().unwrap() on a held mutex; no result at all is Pending.
\*   UnixPty: Ok(0) at once when child_exited; a 0-byte read of the master
\*     sets child_exited.  WindowsPty: an empty message or a closed channel
\*     sets child_exited.
\*   TokioPtyProcessPty: child.try_wait() first, which collects the status
\*     of an exited child and sets child_exited.
\*   ExpectrlPty: delegates to the session.
\*   MemoryPty: the first min(len, cap) bytes of the output buffer, which
\*     are drained, when it is not empty, else Pending, whatever alive is.
\* C is the set of chunks a native PTY may deliver, cap the room in the
\* caller's buffer.
PtyRead(p, C, cap) ==
    LET data == {[res |-> "data", chunk |-> c, pty |-> p] : c \in {x \in C : Len(x) <= cap}}
        eof(q) == [res |-> "eof", chunk |-> << >>, pty |-> q]
        err == [res |-> "err", chunk |-> << >>, pty |-> p]
    IN CASE p.kind = "unix" ->
               IF p.child_exited THEN {eof(p)}
               ELSE data \cup {eof([p EXCEPT !.child_exited = TRUE]), err}
         [] p.kind = "windows" ->
               data \cup {eof([p EXCEPT !.child_exited = TRUE]), err}
         [] p.kind = "tokio" ->
               IF p.proc = "exited"
               THEN {eof([p EXCEPT !.child_exited = TRUE, !.proc = "reaped"])}
               ELSE data \cup {eof(p), err}
         [] p.kind = "expectrl" -> data \cup {eof(p), err}
         [] p.kind = "memory" ->
               IF p.olock THEN {[res |-> "panic", chunk |-> << >>, pty |-> p]}
               ELSE IF p.out # << >>
               THEN LET len == Min(Len(p.out), cap)
                    IN {[res |-> "data", chunk |-> SubSeq(p.out, 1, len),
                         pty |-> [p EXCEPT !.out = SubSeq(@, len + 1, Len(@))]]}
               ELSE {}

\* The process after a successful kill of the child.
Killed(proc) == IF proc = "running" THEN "exited" ELSE proc

\* kill().  No result at all: the caller waits for the mutex of alive.
\*   UnixPty, WindowsPty: Ok at once when child_exited; else child.kill()?
\*     and, on success, child_exited = true.
\*   TokioPtyProcessPty: child.kill().await (which also waits for the child),
\*     then child_exited = true; child_exited is not looked at first, and
\*     tokio refuses to kill a child it has already waited for.
\*   ExpectrlPty: session.kill(); child_exited is left alone.
\*   MemoryPty: alive = false under the lock.
PtyKill(p) ==
    LET q == [p EXCEPT !.kills = @ + 1]
    IN CASE p.kind \in {"unix", "windows"} ->
               IF p.child_exited THEN {[ok |-> TRUE, pty |-> q]}
               ELSE {[ok |-> TRUE, pty |-> [q EXCEPT !.child_exited = TRUE,
                                                     !.proc = Killed(@)]],
                     [ok |-> FALSE, pty |-> q]}
         [] p.kind = "tokio" ->
               IF p.proc = "reaped" THEN {[ok |-> FALSE, pty |-> q]}
               ELSE {[ok |-> TRUE, pty |-> [q EXCEPT !.child_exited = TRUE,
                                                     !.proc = "reaped"]],
                     [ok |-> FALSE, pty |-> q]}
         [] p.kind = "expectrl" ->
               {[ok |-> TRUE, pty |-> [q EXCEPT !.proc = Killed(@)]],
                [ok |-> FALSE, pty |-> q]}
         [] p.kind = "memory" ->
               IF p.alock THEN {}
               ELSE {[ok |-> TRUE, pty |-> [q EXCEPT !.child_exited = TRUE]]}

\* try_wait(): "status" is Ok(Some(status)), "none" is Ok(None), "err" is Err(e).
\*   UnixPty, TokioPtyProcessPty: Ok(None) when child_exited; else
\*     child.try_wait(), and a status sets child_exited.
\*   WindowsPty: always Ok(None).
\*   ExpectrlPty: session.try_status(), and a status sets child_exited; the
\*     status of a child already waited for is gone (an error).
\*   MemoryPty: a default status whenever alive is false.
PtyTryWait(p) ==
    LET status == [res |-> "status", pty |-> [p EXCEPT !.child_exited = TRUE, !.proc = "reaped"]]
        none == [res |-> "none", pty |-> p]
        err == [res |-> "err", pty |-> p]
        child == CASE p.proc = "exited" -> {status, err}
                   [] p.proc = "running" -> {none, err}
                   [] OTHER -> {err}
    IN CASE p.kind \in {"unix", "tokio"} -> IF p.child_exited THEN {none} ELSE child
         [] p.kind = "windows" -> {none}
         [] p.kind = "expectrl" -> child
         [] p.kind = "memory" ->
               IF p.alock THEN {}
               ELSE IF p.child_exited THEN {[res |-> "status", pty |-> p]}
               ELSE {none}

\* is_alive(): !child_exited; MemoryPty reads alive through try_lock().unwrap().
PtyIsAlive(p) ==
    IF p.kind = "memory" /\ p.alock THEN "panic"
    ELSE IF p.child_exited THEN "false" ELSE "true"

\* resize(cols, rows).
\*   UnixPty: ProcessTerminated when child_exited; else the master's resize,
\*     whose error is passed on.
\*   ExpectrlPty: session.resize(), an error becomes ResizeFailed.
\*   WindowsPty, MemoryPty: Ok(()) and nothing else; TokioPtyProcessPty
\*     records the size and returns Ok(()).
PtyResize(p) ==
    CASE p.kind = "unix" ->
             IF p.child_exited THEN {"ProcessTerminated"} ELSE {"Ok", "Io"}
      [] p.kind = "expectrl" -> {"Ok", "ResizeFailed"}
      [] OTHER -> {"Ok"}

\* The process of the PTY has ended: the simulated one is no longer alive,
\* the child of a native backend has exited (by itself or killed).
Ended(p) == IF p.kind = "memory" THEN p.child_exited ELSE p.proc # "running"

\* ------------------------------------------- the output stream of a child
StreamBuild == {"tokio", "windows"}

DataMsg(d) == [ok |-> TRUE, data |-> d]
ErrMsg == [ok |-> FALSE, data |-> << >>]

\* The bytes the reads of the caller returned, in the order of the calls.
RECURSIVE Returned(_)
Returned(os) ==
    IF os = << >> THEN << >>
    ELSE LET o == os[Len(os)]
         IN Returned(SubSeq(os, 1, Len(os) - 1))
               \o (IF o.op = "read" /\ o.res = "data" THEN o.data ELSE << >>)

IsPrefix(a, b) == Len(a) <= Len(b) /\ a = SubSeq(b, 1, Len(a))

\* TokioPtyProcessPty::poll_read with the pipe of stdout spelled out (the
\* child prints nothing on stderr): child.try_wait() comes first, and a
\* status ends the read with no byte; else what stdout holds, up to the room
\* of the caller's buffer; else Pending.
TokioPollRead(p, cap) ==
    IF p.proc # "running"
    THEN {[res |-> "eof", chunk |-> << >>,
           pty |-> [p EXCEPT !.child_exited = TRUE, !.proc = "reaped"]]}
    ELSE IF p.pipe # << >>
    THEN LET len == Min(Len(p.pipe), cap)
         IN {[res |-> "data", chunk |-> SubSeq(p.pipe, 1, len),
              pty |-> [p EXCEPT !.pipe = SubSeq(@, len + 1, Len(@))]]}
    ELSE {}

\* The copy out of read_buffer: to_copy = min(remaining.len(), buf.remaining()).
FromReadBuffer(p, cap) ==
    LET to_copy == Min(Len(p.rbuf), cap)
    IN [res |-> "data", chunk |-> SubSeq(p.rbuf, 1, to_copy),
        pty |-> [p EXCEPT !.rbuf = SubSeq(@, to_copy + 1, Len(@))]]

\* WindowsPty::poll_read: the rest of read_buffer first; else the next
\* message of the channel: the empty message and a closed channel end the
\* output, an error is passed on, data becomes read_buffer and is copied out.
WinPollRead(p, cap) ==
    IF p.rbuf # << >> THEN {FromReadBuffer(p, cap)}
    ELSE IF p.chan = << >>
    THEN IF p.worker = "gone"
         THEN {[res |-> "eof", chunk |-> << >>, pty |-> [p EXCEPT !.child_exited = TRUE]]}
         ELSE {}
    ELSE LET msg == Head(p.chan)
             q == [p EXCEPT !.chan = Tail(@)]
         IN IF ~msg.ok THEN {[res |-> "err", chunk |-> << >>, pty |-> q]}
            ELSE IF msg.data = << >>
            THEN {[res |-> "eof", chunk |-> << >>, pty |-> [q EXCEPT !.child_exited = TRUE]]}
            ELSE {FromReadBuffer([q EXCEPT !.rbuf = msg.data], cap)}

\* ------------------------------------------------------------ PortablePty
\* reader_guard.read(&mut local_buffer) on the blocking thread: output of a
\* running child, or one of the error kinds of std::io; Ok(0) once the child
\* has exited.
OsReads(p) ==
    IF p.proc = "running"
    THEN {"data", "WouldBlock", "TimedOut", "Interrupted", "Io"}
    ELSE {"eof", "Io"}

\* PortablePty::read: Ok(read_bytes) as it is; WouldBlock, TimedOut and
\* Interrupted become Ok(0); any other error is passed on.
PortableRead(p, C) ==
    UNION {CASE os = "data" -> {[res |-> "data", chunk |-> c, pty |-> p] : c \in C}
             [] os \in {"eof", "WouldBlock", "TimedOut", "Interrupted"} ->
                    {[res |-> "eof", chunk |-> << >>, pty |-> p]}
             [] OTHER -> {[res |-> "err", chunk |-> << >>, pty |-> p]} : os \in OsReads(p)}

\* PortablePty::kill: process.kill(), and alive = false whatever it returns.
PortableKill(p) ==
    LET q == [p EXCEPT !.kills = @ + 1, !.child_exited = TRUE]
    IN {[ok |-> TRUE, pty |-> [q EXCEPT !.proc = Killed(@)]], [ok |-> FALSE, pty |-> q]}

\* PortablePty::is_alive: process.try_wait() decides, Ok(None) is alive, a
\* status or an error is not; the flag alive is set to the answer.
PortableIsAlive(p) ==
    LET answer(a) == [res |-> IF a THEN "true" ELSE "false",
                      pty |-> [p EXCEPT !.child_exited = ~a,
                                        !.proc = IF a \/ @ = "running" THEN @ ELSE "reaped"]]
    IN IF p.proc = "running" THEN {answer(TRUE), answer(FALSE)} ELSE {answer(FALSE)}

\* ------------------------------------------- the channels of WindowsPty
\* WindowsPty::poll_write with the write channel spelled out: BrokenPipe once
\* child_exited or when the worker has dropped write_rx; try_send queues the
\* buffer when the channel has room; on a full channel the result is
\* Poll::Pending, and nothing is registered that would wake the task.
WinPollWrite(p, buf) ==
    IF p.child_exited \/ p.worker = "gone" THEN [res |-> "BrokenPipe", pty |-> p]
    ELSE IF Len(p.wq) < ChannelCap
    THEN [res |-> "Ok", pty |-> [p EXCEPT !.wq = Append(@, buf)]]
    ELSE [res |-> "Pending", pty |-> p]

\* The messages master.read makes the worker send: output of a running
\* child or an error, and the empty message once the child has exited.
\* The master is opened in blocking mode and never set otherwise, so while
\* a running child has nothing to print master.read does not return.
Children == {"shell", "cat"}

WorkerMessages(p) ==
    IF p.proc # "running" THEN {"eof"}
    ELSE IF p.child = "cat" /\ p.shown = Len(p.input) THEN {}
    ELSE {"data", "err"}

\* The bytes of the writes that returned Ok, in the order of the calls.
RECURSIVE Accepted(_)
Accepted(os) ==
    IF os = << >> THEN << >>
    ELSE LET o == os[Len(os)]
         IN Accepted(SubSeq(os, 1, Len(os) - 1))
               \o (IF o.op = "write" /\ o.res = "Ok" THEN o.data ELSE << >>)

\* ------------------------------------------------------ backend selection
\* create_pty, create_pty_from_config and create_pty_with_config, on a unix
\* build, a windows build and a build for another platform.
SelectFns == {"create_pty", "create_pty_from_config", "create_pty_with_config"}
Platforms == {"unix", "windows", "other"}

\* app_config.shells: whether it has an entry for default_shell_type, and
\* whether it has one for "bash".
ShellTables == [default : BOOLEAN, bash : BOOLEAN]
NoTable == [default |-> TRUE, bash |-> TRUE]

\* The shell configuration create_pty_from_config takes: that of the
\* default shell type, else that of "bash", else panic!.
ShellFor(table) ==
    IF table.default THEN "default" ELSE IF table.bash THEN "bash" ELSE "panic"

\* The #[cfg] blocks: the factories invoked, in order, and the result (a
\* backend, or "Err").  nativeOk is the outcome of the native factory's
\* create(); MemoryPty::new always returns Ok.
Select(platform, nativeOk) ==
    CASE platform = "unix" ->
             [native |-> IF nativeOk THEN "ok" ELSE "failed", tried |-> <<"unix">>,
              res |-> IF nativeOk THEN "unix" ELSE "Err"]
      [] platform = "windows" ->
             IF nativeOk
             THEN [native |-> "ok", tried |-> <<"windows">>, res |-> "windows"]
             ELSE [native |-> "failed", tried |-> <<"windows", "memory">>, res |-> "memory"]
      [] OTHER -> [native |-> "none", tried |-> <<"memory">>, res |-> "memory"]

\* No call made yet, and the record of a call.
NoCall == [fn |-> "none"]

\* The entries of the shell table, as TerminalConfig::default fills it: the
\* command lists of bash, cmd and powershell (20 "bash", 21 "-l", 22
\* "cmd.exe", 23 "/c", 24 "cmd", 25 "powershell.exe"), a working directory
\* and an environment.
ShellCommands == {<<20, 21>>, <<22, 23, 24>>, <<25>>}
ShellEntries == [command : ShellCommands, working_directory : Cwds,
                 environment : {"TERM", "TERM PATH"}]

\* The configuration create_pty() builds itself, which also stands for the
\* one the caller of create_pty_with_config passes.
DefaultEntry == [command |-> <<20>>, working_directory |-> NoCwd, environment |-> "TERM"]
DefaultConfig == [command |-> <<20>>, args |-> << >>, env |-> "TERM COLORTERM", cwd |-> NoCwd]

\* shell_config.command.join(" "): the words with a blank (7) between them.
RECURSIVE JoinBlank(_)
JoinBlank(words) ==
    IF Len(words) = 0 THEN << >>
    ELSE IF Len(words) = 1 THEN words
    ELSE <<Head(words), 7>> \o JoinBlank(Tail(words))

\* The PtyConfig create_pty_from_config builds from the shell entry: command
\* is the joined list, args is the list without its first element.
PtyConfigOf(entry) ==
    [command |-> JoinBlank(entry.command),
     args |-> Tail(entry.command),
     env |-> entry.environment,
     cwd |-> entry.working_directory]

CreatePty(fn, platform, nativeOk, table, entry) ==
    LET shell == IF fn = "create_pty_from_config" THEN ShellFor(table) ELSE "none"
        sel == IF shell = "panic"
               THEN [native |-> "none", tried |-> << >>, res |-> "panic"]
               ELSE Select(platform, nativeOk)
    IN [fn |-> fn, platform |-> platform, table |-> table, shell |-> shell,
        native |-> sel.native, tried |-> sel.tried, res |-> sel.res,
        entry |-> entry,
        config |-> IF fn = "create_pty_from_config" THEN PtyConfigOf(entry)
                   ELSE DefaultConfig]

\* ------------------------------------------------- WebTransport accept task
\* tokio::spawn(async move { ... }) of start_webtransport_server.
WtSpawn(t) ==
    /\ pc[t] = "idle"
    /\ handler' = [handler EXCEPT ![t] = "hts"]
    /\ pc' = [pc EXCEPT ![t] = "wt_lock"]
    /\ UNCHANGED <<aside, forwarded, sessions, lock, conn_id, connection, pty, lastEvent, calls, accepted>>

\* session_id = format!("session-{}", sessions.len()); drop(sessions);
\* WebTransportConnection::new(session_id); handle_terminal_session starts.
WtSessionId(t) ==
    /\ pc[t] = "wt_len"
    /\ conn_id' = [conn_id EXCEPT ![t] = Len(sessions)]
    /\ connection' = [connection EXCEPT ![t] = "open"]
    /\ lock' = 0
    /\ pc' = [pc EXCEPT ![t] = "hts_lock"]
    /\ UNCHANGED <<aside, forwarded, sessions, handler, pty, lastEvent, calls, accepted>>

\* ------------------------------------------------- handle_terminal_session
\* Variant of HtsPush without drop(sessions): the guard stays alive across
\* create_pty().await.
HtsPushKeepsGuard(t) ==
    /\ pc[t] = "hts_push"
    /\ sessions' = Push(sessions, conn_id[t], t)
    /\ pc' = [pc EXCEPT ![t] = "create_pty"]
    /\ UNCHANGED <<aside, forwarded, lock, handler, conn_id, connection, pty, lastEvent, calls, accepted>>

\* sessions.push(conn_id.clone()); drop(sessions);
HtsPush(t) ==
    /\ pc[t] = "hts_push"
    /\ sessions' = Push(sessions, conn_id[t], t)
    /\ lock' = 0
    /\ pc' = [pc EXCEPT ![t] = "create_pty"]
    /\ UNCHANGED <<aside, forwarded, handler, conn_id, connection, pty, lastEvent, calls, accepted>>

\* crate::pty::create_pty().await: Ok(pty), of a backend of the build B, or
\* Err(e).
HtsCreatePty(t, B) ==
    /\ pc[t] = "create_pty"
    /\ \/ /\ \E kind \in B : pty' = [pty EXCEPT ![t] = NewPty(kind, NoCwd)]
          /\ pc' = [pc EXCEPT ![t] = "loop"]
          /\ UNCHANGED lastEvent
       \/ /\ lastEvent' = Observe(t, lastEvent, "pty_failed")
          /\ pc' = [pc EXCEPT ![t] = "err_send"]
          /\ UNCHANGED pty
    /\ UNCHANGED <<aside, forwarded, sessions, lock, handler, conn_id, connection, calls, accepted>>

\* let _ = connection.send_text("Error: Failed to create terminal session ...").await;
HtsErrSend(t) ==
    /\ pc[t] = "err_send"
    /\ \E ok \in BOOLEAN : calls' = Observe(t, calls, Append(calls, <<"send_text", ok>>))
    /\ pc' = [pc EXCEPT ![t] = "err_close"]
    /\ UNCHANGED <<aside, forwarded, sessions, lock, handler, conn_id, connection, pty, lastEvent, accepted>>

\* Variant of HtsErrClose that leaves the connection open.
HtsErrCloseSkipped(t) ==
    /\ pc[t] = "err_close"
    /\ pc' = [pc EXCEPT ![t] = "err_lock"]
    /\ UNCHANGED <<aside, forwarded, sessions, lock, handler, conn_id, connection, pty, lastEvent, calls, accepted>>

\* let _ = connection.close().await;
HtsErrClose(t) ==
    /\ pc[t] = "err_close"
    /\ \E ok \in BOOLEAN : calls' = Observe(t, calls, Append(calls, <<"close", ok>>))
    /\ connection' = [connection EXCEPT ![t] = "closed"]
    /\ pc' = [pc EXCEPT ![t] = "err_lock"]
    /\ UNCHANGED <<aside, forwarded, sessions, lock, handler, conn_id, pty, lastEvent, accepted>>

\* Variant of HtsErrRetain that returns without the retain.
HtsErrReturnsEarly(t) ==
    /\ pc[t] = "err_retain"
    /\ lock' = 0
    /\ pc' = [pc EXCEPT ![t] = "done"]
    /\ UNCHANGED <<aside, forwarded, sessions, handler, conn_id, connection, pty, lastEvent, calls, accepted>>

\* sessions.retain(|id| id != &conn_id); drop(sessions); return;
HtsErrRetain(t) ==
    /\ pc[t] = "err_retain"
    /\ sessions' = Retain(sessions, conn_id[t])
    /\ calls' = Observe(t, calls, Append(calls, <<"retain", TRUE>>))
    /\ lock' = 0
    /\ pc' = [pc EXCEPT ![t] = "done"]
    /\ UNCHANGED <<aside, forwarded, handler, conn_id, connection, pty, lastEvent, accepted>>

\* --------------------------------------- handle_terminal_session: the loop
\* Events after which the loop iterates again, and events that break out of it.
StayEvents == {"text", "binary", "ping", "pong", "output"}
ExitEvents == {"close_msg", "eos", "conn_err", "pty_write_err", "pong_send_err",
               "pty_eof", "pty_read_err", "output_send_err"}

\* Variant of AfterEvent in which a connection error does not break the loop.
AfterEventIgnoringConnErr(ev) ==
    IF ev \in ExitEvents \ {"conn_err"} THEN "close"
    ELSE IF ev = "panic" THEN "panicked" ELSE "loop"

\* The pc after the loop has processed event ev: break, or the next iteration;
\* a panic unwinds the task, which runs no further code of the handler.
AfterEvent(ev) ==
    IF ev \in ExitEvents THEN "close"
    ELSE IF ev = "panic" THEN "panicked" ELSE "loop"

\* String::from_utf8(data.to_vec()).is_ok(): every byte is ASCII or part of a
\* complete two-byte sequence.
RECURSIVE IsUtf8(_)
IsUtf8(d) ==
    IF d = << >> THEN TRUE
    ELSE IF d[1] \notin {2, 3} THEN IsUtf8(Tail(d))
    ELSE IF d[1] = 2 /\ Len(d) >= 2 /\ d[2] = 3 THEN IsUtf8(Tail(Tail(d)))
    ELSE FALSE

\* Variant of MessageFor that converts lossily and always sends text.
MessageForAlwaysText(data) == [kind |-> "text", bytes |-> data]

\* The message the loop sends for a chunk: send_text(&text) of the String
\* built from the chunk, or send_binary(data) when the chunk is not UTF-8.
MessageFor(data) ==
    IF IsUtf8(data) THEN [kind |-> "text", bytes |-> data]
    ELSE [kind |-> "binary", bytes |-> data]

\* select! branch 1, Text(text) / Binary(bin): pty.write(bytes).await; the
\* byte count of an Ok is not looked at.
HtsReceiveData(t, P) ==
    /\ pc[t] = "loop"
    /\ \E kind \in {"text", "binary"}, buf \in P :
         /\ Len(accepted) + Len(buf) <= MaxInput
         /\ \E w \in PtyWrite(pty[t], buf) :
              LET ev == IF w.ok THEN kind
                        ELSE IF w.err = "panic" THEN "panic" ELSE "pty_write_err" IN
              /\ pty' = [pty EXCEPT ![t] = w.pty]
              /\ accepted' = Observe(t, accepted, IF w.ok THEN accepted \o buf ELSE accepted)
              /\ lastEvent' = Observe(t, lastEvent, ev)
              /\ pc' = [pc EXCEPT ![t] = AfterEvent(ev)]
    /\ UNCHANGED <<aside, forwarded, sessions, lock, handler, conn_id, connection, calls>>

\* select! branch 1, the other outcomes of connection.receive(): Ping (answered
\* by send_text("Pong"), which may fail), Pong, Close, Some(Err(e)), None.
HtsReceiveControl(t) ==
    /\ pc[t] = "loop"
    /\ \E ev \in {"ping", "pong_send_err", "pong", "close_msg", "conn_err", "eos"} :
         /\ lastEvent' = Observe(t, lastEvent, ev)
         /\ pc' = [pc EXCEPT ![t] = AfterEvent(ev)]
    /\ UNCHANGED <<aside, forwarded, sessions, lock, handler, conn_id, connection, pty, calls, accepted>>

\* select! branch 2, pty.read(&mut pty_buffer): Ok(0), Ok(n) forwarded by
\* send_text / send_binary (which may fail), Err(e).  C is the set of chunks
\* a native PTY may deliver.
HtsPtyRead(t, C) ==
    /\ pc[t] = "loop"
    /\ \E r \in PtyRead(pty[t], C, PtyBufferSize) :
         /\ pty' = [pty EXCEPT ![t] = r.pty]
         /\ \E ev \in (CASE r.res = "eof"   -> {"pty_eof"}
                         [] r.res = "err"   -> {"pty_read_err"}
                         [] r.res = "panic" -> {"panic"}
                         [] r.res = "data"  -> {"output", "output_send_err"}) :
              /\ lastEvent' = Observe(t, lastEvent, ev)
              /\ forwarded' = Observe(t, forwarded,
                     IF r.res = "data"
                     THEN <<[chunk |-> r.chunk, msg |-> MessageFor(r.chunk),
                             ok |-> ev = "output"]>>
                     ELSE forwarded)
              /\ pc' = [pc EXCEPT ![t] = AfterEvent(ev)]
    /\ UNCHANGED <<aside, sessions, lock, handler, conn_id, connection, calls, accepted>>

\* select! finds neither branch ready and the task is suspended.  A native
\* backend leaves the task's waker with its descriptor or channel, so the
\* task is polled again when output arrives; MemoryPty::poll_read returns
\* Pending on an empty buffer without using its context (_cx), so only the
\* connection can wake the task.
HtsPark(t) ==
    /\ pc[t] = "loop"
    /\ pty[t].kind = "memory"
    /\ ~pty[t].olock
    /\ pty[t].out = << >>
    /\ pc' = [pc EXCEPT ![t] = "parked"]
    /\ UNCHANGED <<aside, forwarded, sessions, lock, handler, conn_id, connection, pty,
                   lastEvent, calls, accepted>>

\* connection.receive() becomes ready: the task is woken and select! polls
\* its branches again.
HtsWake(t) ==
    /\ pc[t] = "parked"
    /\ pc' = [pc EXCEPT ![t] = "loop"]
    /\ UNCHANGED <<aside, forwarded, sessions, lock, handler, conn_id, connection, pty,
                   lastEvent, calls, accepted>>

\* ------------------------------------ handle_terminal_session: the cleanup
\* Variant of HtsClose that propagates the error of close() (as with `?`):
\* the function returns at once, without kill and without retain.
HtsCloseShortCircuits(t) ==
    /\ pc[t] = "close"
    /\ \E ok \in BOOLEAN :
         /\ calls' = Observe(t, calls, Append(calls, <<"close", ok>>))
         /\ pc' = [pc EXCEPT ![t] = IF ok THEN "kill" ELSE "done"]
    /\ connection' = [connection EXCEPT ![t] = "closed"]
    /\ UNCHANGED <<aside, forwarded, sessions, lock, handler, conn_id, pty, lastEvent, accepted>>

\* if let Err(e) = connection.close().await { error!(..) }
HtsClose(t) ==
    /\ pc[t] = "close"
    /\ \E ok \in BOOLEAN : calls' = Observe(t, calls, Append(calls, <<"close", ok>>))
    /\ connection' = [connection EXCEPT ![t] = "closed"]
    /\ pc' = [pc EXCEPT ![t] = "kill"]
    /\ UNCHANGED <<aside, forwarded, sessions, lock, handler, conn_id, pty, lastEvent, accepted>>

\* if let Err(e) = pty.kill().await { error!(..) }
HtsKill(t) ==
    /\ pc[t] = "kill"
    /\ \E k \in PtyKill(pty[t]) :
         /\ pty' = [pty EXCEPT ![t] = k.pty]
         /\ calls' = Observe(t, calls, Append(calls, <<"kill", k.ok>>))
    /\ pc' = [pc EXCEPT ![t] = "end_lock"]
    /\ UNCHANGED <<aside, forwarded, sessions, lock, handler, conn_id, connection, lastEvent, accepted>>

\* sessions.retain(|id| id != &conn_id); drop(sessions); the function returns
\* and its locals (connection, pty) are dropped.
HtsRetain(t) ==
    /\ pc[t] = "end_retain"
    /\ sessions' = Retain(sessions, conn_id[t])
    /\ calls' = Observe(t, calls, Append(calls, <<"retain", TRUE>>))
    /\ pty' = [pty EXCEPT ![t].handle = "dropped"]
    /\ lock' = 0
    /\ pc' = [pc EXCEPT ![t] = "done"]
    /\ UNCHANGED <<aside, forwarded, handler, conn_id, connection, lastEvent, accepted>>

\* ------------------------------------------------------------ handle_socket
\* ws.on_upgrade(|socket| handle_socket(socket, state_clone))
WsAccept(t) ==
    /\ pc[t] = "idle"
    /\ handler' = [handler EXCEPT ![t] = "ws"]
    /\ connection' = [connection EXCEPT ![t] = "open"]
    /\ pc' = [pc EXCEPT ![t] = "ws_lock"]
    /\ UNCHANGED <<aside, forwarded, sessions, lock, conn_id, pty, lastEvent, calls, accepted>>

\* session_id = format!("session-{}", sessions.len());
\* sessions.push(session_id.clone()); drop(sessions);
WsPush(t) ==
    /\ pc[t] = "ws_push"
    /\ conn_id' = [conn_id EXCEPT ![t] = Len(sessions)]
    /\ sessions' = Push(sessions, Len(sessions), t)
    /\ lock' = 0
    /\ pc' = [pc EXCEPT ![t] = "ws_welcome"]
    /\ UNCHANGED <<aside, forwarded, handler, connection, pty, lastEvent, calls, accepted>>

\* if socket.send(welcome_msg).await.is_err() { return; }
WsWelcome(t) ==
    /\ pc[t] = "ws_welcome"
    /\ \/ /\ pc' = [pc EXCEPT ![t] = "ws_loop"]
          /\ UNCHANGED connection
       \/ /\ pc' = [pc EXCEPT ![t] = "done"]
          /\ connection' = [connection EXCEPT ![t] = "closed"]
    /\ UNCHANGED <<aside, forwarded, sessions, lock, handler, conn_id, pty, lastEvent, calls, accepted>>

\* while let Some(msg) = socket.next().await { ... }: Text (echo sent, or the
\* send fails), Binary, Ping (pong sent, or the send fails), Pong, Close,
\* Err(e), None.
WsStayEvents == {"text", "binary", "ping", "pong"}
WsExitEvents == {"echo_send_err", "pong_send_err", "close_msg", "conn_err", "eos"}

WsMessage(t) ==
    /\ pc[t] = "ws_loop"
    /\ \E ev \in WsStayEvents \cup WsExitEvents :
         /\ lastEvent' = Observe(t, lastEvent, ev)
         /\ pc' = [pc EXCEPT ![t] = IF ev \in WsExitEvents THEN "ws_end_lock" ELSE "ws_loop"]
    /\ UNCHANGED <<aside, forwarded, sessions, lock, handler, conn_id, connection, pty, calls, accepted>>

\* sessions.retain(|id| id != &session_id); the guard and the socket are
\* dropped when the function returns.
WsRetain(t) ==
    /\ pc[t] = "ws_end_retain"
    /\ sessions' = Retain(sessions, conn_id[t])
    /\ connection' = [connection EXCEPT ![t] = "closed"]
    /\ lock' = 0
    /\ pc' = [pc EXCEPT ![t] = "done"]
    /\ UNCHANGED <<aside, forwarded, handler, conn_id, pty, lastEvent, calls, accepted>>

\* ------------------------------------- MemoryPty: the tasks poll_write spawns
\* pty[t] with its i-th spawned task at position p ("finished": the task is gone).
BgAt(t, i, p) ==
    IF p = "finished"
    THEN [pty[t] EXCEPT !.bg = SubSeq(@, 1, i - 1) \o SubSeq(@, i + 1, Len(@))]
    ELSE [pty[t] EXCEPT !.bg[i].pc = p]

\* tokio::spawn(async move { this_clone.process_input(&data_clone).await ..:
\* process_input starts; at a line "exit" it awaits the mutex of alive.
BgProcess(t) ==
    /\ \E i \in 1..Len(pty[t].bg) :
         /\ pty[t].bg[i].pc = "start"
         /\ IF HasExit(pty[t].bg[i].data)
            THEN /\ ~pty[t].alock
                 /\ pty' = [pty EXCEPT ![t] = [BgAt(t, i, "alive_locked") EXCEPT !.alock = TRUE]]
            ELSE pty' = [pty EXCEPT ![t] = BgAt(t, i, "respond")]
    /\ UNCHANGED <<aside, forwarded, sessions, lock, handler, pc, conn_id, connection,
                   lastEvent, calls, accepted>>

\* *alive = false; response.push_str(..); the guard is dropped at the end of
\* the match arm.
BgSetDead(t) ==
    /\ \E i \in 1..Len(pty[t].bg) :
         /\ pty[t].bg[i].pc = "alive_locked"
         /\ pty' = [pty EXCEPT ![t] = [BgAt(t, i, "respond") EXCEPT !.child_exited = TRUE,
                                                                   !.alock = FALSE]]
    /\ UNCHANGED <<aside, forwarded, sessions, lock, handler, pc, conn_id, connection,
                   lastEvent, calls, accepted>>

\* let mut output_buf = this_clone.output_buffer.lock().await;
BgLockOutput(t) ==
    /\ \E i \in 1..Len(pty[t].bg) :
         /\ pty[t].bg[i].pc = "respond"
         /\ ~pty[t].olock
         /\ pty' = [pty EXCEPT ![t] = [BgAt(t, i, "out_locked") EXCEPT !.olock = TRUE]]
    /\ UNCHANGED <<aside, forwarded, sessions, lock, handler, pc, conn_id, connection,
                   lastEvent, calls, accepted>>

\* output_buf.extend_from_slice(&response); the guard is dropped and the task
\* ends.
BgExtend(t) ==
    /\ \E i \in 1..Len(pty[t].bg) :
         /\ pty[t].bg[i].pc = "out_locked"
         /\ pty' = [pty EXCEPT ![t] =
                       [BgAt(t, i, "finished") EXCEPT !.out = @ \o Response(pty[t].bg[i].data,
                                                                             pty[t].cwd),
                                                      !.olock = FALSE]]
    /\ UNCHANGED <<aside, forwarded, sessions, lock, handler, pc, conn_id, connection,
                   lastEvent, calls, accepted>>

\* --------------------------------------------- a direct caller of AsyncPty
\* A task that owns one backend and calls the operations of the trait on it
\* in any order (as the tests of the backends do).  factory.create(&config),
\* for a backend of B and a working directory of W.
DrvCreate(t, B, W) ==
    /\ pc[t] = "idle"
    /\ handler' = [handler EXCEPT ![t] = "drv"]
    /\ \E kind \in B, cwd \in W : pty' = [pty EXCEPT ![t] = NewPty(kind, cwd)]
    /\ pc' = [pc EXCEPT ![t] = "drv"]
    /\ UNCHANGED <<aside, forwarded, sessions, lock, conn_id, connection, lastEvent,
                   calls, accepted>>

\* A caller obtains its PTY from a selection function.
SelCreate(t) ==
    /\ pc[t] = "idle"
    /\ handler' = [handler EXCEPT ![t] = "drv"]
    /\ \E fn \in SelectFns, platform \in Platforms, nativeOk \in BOOLEAN :
         \E table \in (IF fn = "create_pty_from_config" THEN ShellTables ELSE {NoTable}),
            entry \in (IF fn = "create_pty_from_config" THEN ShellEntries ELSE {DefaultEntry}) :
            LET call == CreatePty(fn, platform, nativeOk, table, entry) IN
            /\ made' = Observe(t, made, call)
            /\ pty' = [pty EXCEPT ![t] = IF call.res \in Backends
                                         THEN NewPty(call.res, call.config.cwd) ELSE @]
            /\ pc' = [pc EXCEPT ![t] = CASE call.res = "panic" -> "panicked"
                                         [] call.res = "Err" -> "failed"
                                         [] OTHER -> "drv"]
    /\ UNCHANGED <<ops, shutdown, forwarded, sessions, lock, conn_id, connection, lastEvent,
                   calls, accepted>>

\* The record of one operation: its name, its result, the bytes accepted (a
\* write) or the room in the caller's buffer (a read), and the data passed
\* or returned.
Op(name, res, n, data) == [op |-> name, res |-> res, n |-> n, data |-> data]

\* The caller after an operation: a panic unwinds it.
AfterOp(res) == IF res = "panic" THEN "panicked" ELSE "drv"

\* pty.write(buf).await
DrvWrite(t, P) ==
    /\ pc[t] = "drv"
    /\ Len(ops) < MaxOps
    /\ \E buf \in P :
         \E w \in PtyWrite(pty[t], buf) :
            LET res == IF w.ok THEN "Ok" ELSE w.err IN
            /\ pty' = [pty EXCEPT ![t] = w.pty]
            /\ ops' = Observe(t, ops, Append(ops, Op("write", res, w.n, buf)))
            /\ pc' = [pc EXCEPT ![t] = AfterOp(res)]
    /\ UNCHANGED <<made, shutdown, forwarded, sessions, lock, handler, conn_id, connection,
                   lastEvent, calls, accepted>>

\* pty.read(&mut buffer).await, with a buffer of a size of K.
DrvRead(t, C, K) ==
    /\ pc[t] = "drv"
    /\ Len(ops) < MaxOps
    /\ \E cap \in K :
         \E r \in PtyRead(pty[t], C, cap) :
            /\ pty' = [pty EXCEPT ![t] = r.pty]
            /\ ops' = Observe(t, ops, Append(ops, Op("read", r.res, cap, r.chunk)))
            /\ pc' = [pc EXCEPT ![t] = AfterOp(r.res)]
    /\ UNCHANGED <<made, shutdown, forwarded, sessions, lock, handler, conn_id, connection,
                   lastEvent, calls, accepted>>

\* pty.kill().await
DrvKill(t) ==
    /\ pc[t] = "drv"
    /\ Len(ops) < MaxOps
    /\ \E k \in PtyKill(pty[t]) :
         /\ pty' = [pty EXCEPT ![t] = k.pty]
         /\ ops' = Observe(t, ops, Append(ops, Op("kill", IF k.ok THEN "Ok" ELSE "Err", 0, << >>)))
    /\ UNCHANGED <<made, shutdown, forwarded, sessions, lock, handler, pc, conn_id, connection,
                   lastEvent, calls, accepted>>

\* pty.try_wait().await
DrvTryWait(t) ==
    /\ pc[t] = "drv"
    /\ Len(ops) < MaxOps
    /\ \E w \in PtyTryWait(pty[t]) :
         /\ pty' = [pty EXCEPT ![t] = w.pty]
         /\ ops' = Observe(t, ops, Append(ops, Op("try_wait", w.res, 0, << >>)))
    /\ UNCHANGED <<made, shutdown, forwarded, sessions, lock, handler, pc, conn_id, connection,
                   lastEvent, calls, accepted>>

\* pty.is_alive()
DrvIsAlive(t) ==
    /\ pc[t] = "drv"
    /\ Len(ops) < MaxOps
    /\ ops' = Observe(t, ops, Append(ops, Op("is_alive", PtyIsAlive(pty[t]), 0, << >>)))
    /\ pc' = [pc EXCEPT ![t] = AfterOp(PtyIsAlive(pty[t]))]
    /\ UNCHANGED <<made, shutdown, forwarded, sessions, lock, handler, conn_id, connection, pty,
                   lastEvent, calls, accepted>>

\* pty.resize(cols, rows).await
DrvResize(t) ==
    /\ pc[t] = "drv"
    /\ Len(ops) < MaxOps
    /\ \E r \in PtyResize(pty[t]) :
         ops' = Observe(t, ops, Append(ops, Op("resize", r, 0, << >>)))
    /\ UNCHANGED <<made, shutdown, forwarded, sessions, lock, handler, pc, conn_id, connection, pty,
                   lastEvent, calls, accepted>>

\* WindowsPtyFactory::create(&config), for a command of Children.
QCreate(t) ==
    /\ pc[t] = "idle"
    /\ handler' = [handler EXCEPT ![t] = "drv"]
    /\ \E c \in Children :
         pty' = [pty EXCEPT ![t] = [NewPty("windows", NoCwd) EXCEPT !.child = c]]
    /\ pc' = [pc EXCEPT ![t] = "drv"]
    /\ UNCHANGED <<aside, forwarded, sessions, lock, conn_id, connection, lastEvent,
                   calls, accepted>>

\* pty.write(buf).await on WindowsPty, first poll: the write completes, or
\* the task is suspended in it.
QWrite(t) ==
    /\ pc[t] = "drv"
    /\ pty[t].kind = "windows"
    /\ Len(ops) < MaxOps
    /\ \E buf \in Commands :
         LET w == WinPollWrite(pty[t], buf) IN
         IF w.res = "Pending"
         THEN /\ pty' = [pty EXCEPT ![t] = [w.pty EXCEPT !.pend = buf, !.woken = FALSE,
                                                          !.freed = FALSE]]
              /\ pc' = [pc EXCEPT ![t] = "write_pending"]
              /\ ops' = ops
         ELSE /\ pty' = [pty EXCEPT ![t] = w.pty]
              /\ ops' = Observe(t, ops, Append(ops, Op("write", w.res, Len(buf), buf)))
              /\ pc' = pc
    /\ UNCHANGED <<made, shutdown, forwarded, sessions, lock, handler, conn_id, connection,
                   lastEvent, calls, accepted>>

\* The runtime polls the suspended write again, which it does only after the
\* task has been woken.
QRepoll(t) ==
    /\ pc[t] = "write_pending"
    /\ pty[t].woken
    /\ LET w == WinPollWrite(pty[t], pty[t].pend) IN
       IF w.res = "Pending"
       THEN /\ pty' = [pty EXCEPT ![t].woken = FALSE]
            /\ UNCHANGED <<pc, ops>>
       ELSE /\ pty' = [pty EXCEPT ![t] = [w.pty EXCEPT !.pend = << >>, !.woken = FALSE,
                                                        !.freed = FALSE]]
            /\ ops' = Observe(t, ops, Append(ops, Op("write", w.res, Len(pty[t].pend),
                                                     pty[t].pend)))
            /\ pc' = [pc EXCEPT ![t] = "drv"]
    /\ UNCHANGED <<made, shutdown, forwarded, sessions, lock, handler, conn_id, connection,
                   lastEvent, calls, accepted>>

\* One poll of pty.read(&mut buffer) on WindowsPty, as a branch of select!:
\* a message of the read channel, a closed channel, or Pending with the
\* waker of the task left in the channel.
QRead(t) ==
    /\ pc[t] = "drv"
    /\ pty[t].kind = "windows"
    /\ Len(ops) < MaxOps
    /\ LET p == pty[t] IN
       IF p.rq # << >>
       THEN LET msg == Head(p.rq)
                q == [p EXCEPT !.rq = Tail(@),
                               !.child_exited = IF msg = "eof" THEN TRUE ELSE @]
            IN /\ pty' = [pty EXCEPT ![t] = q]
               /\ ops' = Observe(t, ops, Append(ops, Op("read", msg, PtyBufferSize,
                                       IF msg = "data" THEN <<1>> ELSE << >>)))
       ELSE IF p.worker = "gone"
       THEN /\ pty' = [pty EXCEPT ![t].child_exited = TRUE]
            /\ ops' = Observe(t, ops, Append(ops, Op("read", "eof", PtyBufferSize, << >>)))
       ELSE /\ ~p.rwaker
            /\ pty' = [pty EXCEPT ![t].rwaker = TRUE]
            /\ ops' = ops
    /\ UNCHANGED <<made, shutdown, forwarded, sessions, lock, handler, pc, conn_id, connection,
                   lastEvent, calls, accepted>>

\* pty_io_worker, first half of the loop: master.read returns and its result
\* is sent on the read channel, which wakes the task whose waker the channel
\* holds; after the empty message or an error the worker returns and
\* write_rx is dropped with what it holds.
WorkerRead(t) ==
    /\ pty[t].kind = "windows"
    /\ pty[t].worker = "read"
    /\ Len(pty[t].rq) < ChannelCap
    /\ \E msg \in WorkerMessages(pty[t]) :
         pty' = [pty EXCEPT ![t] =
                    [@ EXCEPT !.rq = Append(@, msg),
                              !.rwaker = FALSE,
                              !.shown = IF msg = "data" THEN Len(pty[t].input) ELSE @,
                              !.woken = IF pty[t].rwaker /\ pc[t] = "write_pending"
                                        THEN TRUE ELSE @,
                              !.worker = IF msg = "data" THEN "recv" ELSE "gone",
                              !.wq = IF msg = "data" THEN @ ELSE << >>]]
    /\ UNCHANGED <<aside, forwarded, sessions, lock, handler, pc, conn_id, connection,
                   lastEvent, calls, accepted>>

\* pty_io_worker, second half of the loop: write_rx.try_recv() takes at most
\* one buffer, which is written to the master.
WorkerRecv(t) ==
    /\ pty[t].kind = "windows"
    /\ pty[t].worker = "recv"
    /\ pty' = [pty EXCEPT ![t] =
                IF pty[t].wq = << >> THEN [@ EXCEPT !.worker = "read"]
                ELSE [@ EXCEPT !.worker = "read",
                               !.wq = Tail(@),
                               !.input = @ \o Head(pty[t].wq),
                               !.freed = @ \/ pc[t] = "write_pending"]]
    /\ UNCHANGED <<aside, forwarded, sessions, lock, handler, pc, conn_id, connection,
                   lastEvent, calls, accepted>>

\* ------------------------------------- a reader of a native child's output
\* factory.create(&config) of TokioPtyProcessPty or WindowsPty.
StreamCreate(t) == DrvCreate(t, StreamBuild, {NoCwd})

\* The child prints one more byte; the bytes are numbered in their order.
ChildPrint(t) ==
    /\ pty[t].kind \in StreamBuild
    /\ pty[t].proc = "running"
    /\ Len(pty[t].printed) < MaxInput
    /\ pty' = [pty EXCEPT ![t].printed = Append(@, Len(@) + 1),
                          ![t].pipe = Append(@, Len(pty[t].printed) + 1)]
    /\ UNCHANGED <<aside, forwarded, sessions, lock, handler, pc, conn_id, connection,
                   lastEvent, calls, accepted>>

\* pty_io_worker, first half of the loop, with the bytes spelled out:
\* master.read returns what the child has printed, or Ok(0) after its exit,
\* or an error, and the worker sends it on the read channel; after Ok(0) or
\* an error it returns.
StreamRelay(t) ==
    /\ pty[t].kind = "windows"
    /\ pty[t].worker = "read"
    /\ Len(pty[t].chan) < ChannelCap
    /\ \/ /\ pty[t].pipe # << >>
          /\ pty' = [pty EXCEPT ![t].chan = Append(@, DataMsg(pty[t].pipe)),
                                ![t].pipe = << >>,
                                ![t].worker = "recv"]
       \/ /\ pty[t].pipe = << >>
          /\ pty[t].proc # "running"
          /\ pty' = [pty EXCEPT ![t].chan = Append(@, DataMsg(<< >>)),
                                ![t].worker = "gone"]
       \/ pty' = [pty EXCEPT ![t].chan = Append(@, ErrMsg), ![t].worker = "gone"]
    /\ UNCHANGED <<aside, forwarded, sessions, lock, handler, pc, conn_id, connection,
                   lastEvent, calls, accepted>>

\* pty.read(&mut buffer).await with a buffer of a size of K.
StreamRead(t, K) ==
    /\ pc[t] = "drv"
    /\ pty[t].kind \in StreamBuild
    /\ Len(ops) < MaxOps
    /\ \E cap \in K :
         \E r \in (IF pty[t].kind = "tokio" THEN TokioPollRead(pty[t], cap)
                   ELSE WinPollRead(pty[t], cap)) :
            /\ pty' = [pty EXCEPT ![t] = r.pty]
            /\ ops' = Observe(t, ops, Append(ops, Op("read", r.res, cap, r.chunk)))
    /\ UNCHANGED <<made, shutdown, forwarded, sessions, lock, handler, pc, conn_id, connection,
                   lastEvent, calls, accepted>>

\* ------------------------------------------------- a caller of PortablePty
\* PortablePty::new()
PortCreate(t) ==
    /\ pc[t] = "idle"
    /\ handler' = [handler EXCEPT ![t] = "drv"]
    /\ pty' = [pty EXCEPT ![t] = NewPty("portable", NoCwd)]
    /\ pc' = [pc EXCEPT ![t] = "drv"]
    /\ UNCHANGED <<aside, forwarded, sessions, lock, conn_id, connection, lastEvent,
                   calls, accepted>>

\* One call of the PTY of the portable backend by the task that owns it.
PortReady(t) ==
    /\ pc[t] = "drv"
    /\ pty[t].kind = "portable"
    /\ Len(ops) < MaxOps

\* pty.read(&mut buffer).await
PortRead(t) ==
    /\ PortReady(t)
    /\ \E r \in PortableRead(pty[t], OneChunk) :
         /\ pty' = [pty EXCEPT ![t] = r.pty]
         /\ ops' = Observe(t, ops, Append(ops, Op("read", r.res, PtyBufferSize, r.chunk)))
    /\ UNCHANGED <<made, shutdown, forwarded, sessions, lock, handler, pc, conn_id, connection,
                   lastEvent, calls, accepted>>

\* pty.kill().await
PortKill(t) ==
    /\ PortReady(t)
    /\ \E k \in PortableKill(pty[t]) :
         /\ pty' = [pty EXCEPT ![t] = k.pty]
         /\ ops' = Observe(t, ops, Append(ops, Op("kill", IF k.ok THEN "Ok" ELSE "Err", 0, << >>)))
    /\ UNCHANGED <<made, shutdown, forwarded, sessions, lock, handler, pc, conn_id, connection,
                   lastEvent, calls, accepted>>

\* pty.is_alive().await
PortIsAlive(t) ==
    /\ PortReady(t)
    /\ \E a \in PortableIsAlive(pty[t]) :
         /\ pty' = [pty EXCEPT ![t] = a.pty]
         /\ ops' = Observe(t, ops, Append(ops, Op("is_alive", a.res, 0, << >>)))
    /\ UNCHANGED <<made, shutdown, forwarded, sessions, lock, handler, pc, conn_id, connection,
                   lastEvent, calls, accepted>>

\* ------------------------------------------------------- the REST handlers
\* A task that serves management requests, one after the other.  n of the
\* record of a request is the session id it names, res the status code.
RestReady(t) ==
    /\ handler[t] \in {"none", "rest"}
    /\ pc[t] \in {"idle", "rest"}
    /\ Len(ops) < MaxOps
    /\ lock = 0

\* get_session
RestGet(t) ==
    /\ RestReady(t)
    /\ \E id \in RestIds :
         ops' = Observe(t, ops, Append(ops,
                   Op("get", IF GetSession(sessions, id) THEN "200" ELSE "404", id, << >>)))
    /\ handler' = [handler EXCEPT ![t] = "rest"]
    /\ pc' = [pc EXCEPT ![t] = "rest"]
    /\ UNCHANGED <<made, shutdown, forwarded, sessions, lock, conn_id, connection, pty,
                   lastEvent, calls, accepted>>

\* resize_session: state.get_session(&session_id).await
RestResizeGet(t) ==
    /\ RestReady(t)
    /\ \E id \in RestIds :
         IF GetSession(sessions, id)
         THEN /\ conn_id' = [conn_id EXCEPT ![t] = id]
              /\ pc' = [pc EXCEPT ![t] = "rest_update"]
              /\ ops' = ops
         ELSE /\ ops' = Observe(t, ops, Append(ops, Op("resize", "404", id, << >>)))
              /\ pc' = [pc EXCEPT ![t] = "rest"]
              /\ conn_id' = conn_id
    /\ handler' = [handler EXCEPT ![t] = "rest"]
    /\ UNCHANGED <<made, shutdown, forwarded, sessions, lock, connection, pty,
                   lastEvent, calls, accepted>>

\* resize_session: if state.update_session(session.clone()).await { 200 }
\* else { 500 }
RestResizeUpdate(t) ==
    /\ pc[t] = "rest_update"
    /\ lock = 0
    /\ ops' = Observe(t, ops, Append(ops,
                  Op("resize", IF UpdateSession(sessions, conn_id[t]) THEN "200" ELSE "500",
                     conn_id[t], << >>)))
    /\ pc' = [pc EXCEPT ![t] = "rest"]
    /\ UNCHANGED <<made, shutdown, forwarded, sessions, lock, handler, conn_id, connection, pty,
                   lastEvent, calls, accepted>>

\* terminate_session
RestTerminate(t) ==
    /\ RestReady(t)
    /\ \E id \in RestIds :
         /\ ops' = Observe(t, ops, Append(ops,
                      Op("terminate", IF GetSession(sessions, id) THEN "200" ELSE "404",
                         id, << >>)))
         /\ sessions' = RemoveSession(sessions, id)
    /\ handler' = [handler EXCEPT ![t] = "rest"]
    /\ pc' = [pc EXCEPT ![t] = "rest"]
    /\ UNCHANGED <<made, shutdown, forwarded, lock, conn_id, connection, pty,
                   lastEvent, calls, accepted>>

\* The child of a native backend exits by itself.
ProcExit(t) ==
    /\ pty[t].handle = "open"
    /\ pty[t].proc = "running"
    /\ pty' = [pty EXCEPT ![t].proc = "exited"]
    /\ UNCHANGED <<aside, forwarded, sessions, lock, handler, pc, conn_id, connection,
                   lastEvent, calls, accepted>>

\* ----------------------------------------------------------------- shutdown
\* The process is told to shut down (SIGINT / SIGTERM).  run_server installs
\* no handler and passes no shutdown future to axum::serve, and no session
\* loop has a branch that waits for such a signal: no code reads the flag.
Shutdown ==
    /\ ~shutdown
    /\ shutdown' = TRUE
    /\ UNCHANGED <<made, ops, forwarded, sessions, lock, handler, pc, conn_id, connection, pty,
                   lastEvent, calls, accepted>>

\* ------------------------------------------------------------ specification
\* AppState::new() and no connection yet.
Init ==
    /\ sessions = << >>
    /\ lock = 0
    /\ handler = [t \in Tasks |-> "none"]
    /\ pc = [t \in Tasks |-> "idle"]
    /\ conn_id = [t \in Tasks |-> NoId]
    /\ connection = [t \in Tasks |-> "none"]
    /\ pty = [t \in Tasks |-> NoPty]
    /\ lastEvent = "none"
    /\ calls = << >>
    /\ accepted = << >>
    /\ forwarded = << >>
    /\ ops = << >>
    /\ shutdown = FALSE
    /\ made = NoCall

Step(t, P, C, B) ==
    \/ Lock(t)
    \/ WtSpawn(t)
    \/ WtSessionId(t)
    \/ HtsPush(t)
    \/ HtsCreatePty(t, B)
    \/ HtsErrSend(t)
    \/ HtsErrClose(t)
    \/ HtsErrRetain(t)
    \/ HtsReceiveData(t, P)
    \/ HtsReceiveControl(t)
    \/ HtsPtyRead(t, C)
    \/ HtsClose(t)
    \/ HtsKill(t)
    \/ HtsRetain(t)
    \/ WsAccept(t)
    \/ WsPush(t)
    \/ WsWelcome(t)
    \/ WsMessage(t)
    \/ WsRetain(t)

\* All tasks, sharing the registry; message payloads are empty.
Next == \E t \in Tasks : Step(t, NoPayloads, OneChunk, UnixBuild)

Spec == Init /\ [][Next]_vars

\* The observed session alone, receiving non-empty payloads.
NextData == Step(Observed, Payloads, Chunks, UnixBuild)

SpecData == Init /\ [][NextData]_vars

\* The steps of a task that need no event from its peer or its child: the
\* scheduler runs a task that is ready, and the lock, the PTY factory, a
\* send, a close and a kill complete.
Progress(t, B) ==
    \/ Lock(t)
    \/ WtSessionId(t)
    \/ HtsPush(t)
    \/ HtsCreatePty(t, B)
    \/ HtsErrSend(t)
    \/ HtsErrClose(t)
    \/ HtsErrRetain(t)
    \/ HtsClose(t)
    \/ HtsKill(t)
    \/ HtsRetain(t)
    \/ WsPush(t)
    \/ WsWelcome(t)
    \/ WsRetain(t)

\* All tasks on a unix build, and the shutdown signal; every task that can
\* make progress does.
NextLive ==
    \/ \E t \in Tasks : Step(t, NoPayloads, OneChunk, UnixBuild)
    \/ Shutdown

SpecLive ==
    /\ Init
    /\ [][NextLive]_vars
    /\ \A t \in Tasks : WF_vars(Progress(t, UnixBuild))

\* The tasks of the simulated backend of task t.
Background(t) ==
    \/ BgProcess(t)
    \/ BgSetDead(t)
    \/ BgLockOutput(t)
    \/ BgExtend(t)

\* The observed session on the simulated backend, receiving commands; the
\* spawned tasks run, and output that is available is read.
NextMemory ==
    \/ Step(Observed, Commands, OneChunk, MemoryBuild)
    \/ Background(Observed)

SpecMemory ==
    /\ Init
    /\ [][NextMemory]_vars
    /\ WF_vars(Progress(Observed, MemoryBuild))
    /\ WF_vars(Background(Observed))
    /\ WF_vars(HtsPtyRead(Observed, OneChunk))

\* The observed session on the simulated backend with the suspension of its
\* loop spelled out: the loop reads output it finds when it polls, and is
\* polled again only when the connection has something for it.
NextWake ==
    \/ Step(Observed, Commands, OneChunk, MemoryBuild)
    \/ Background(Observed)
    \/ HtsPark(Observed)
    \/ HtsWake(Observed)

SpecWake ==
    /\ Init
    /\ [][NextWake]_vars
    /\ WF_vars(Progress(Observed, MemoryBuild))
    /\ WF_vars(Background(Observed))
    /\ WF_vars(HtsPtyRead(Observed, OneChunk))

\* A caller that reads the output of a native child into a small buffer,
\* the child, and the worker thread of WindowsPty.
NextStream ==
    \/ StreamCreate(Observed)
    \/ ChildPrint(Observed)
    \/ ProcExit(Observed)
    \/ StreamRelay(Observed)
    \/ WorkerRecv(Observed)
    \/ StreamRead(Observed, Caps)

SpecStream == Init /\ [][NextStream]_vars

\* A direct caller of PortablePty, and its child.
NextPortable ==
    \/ PortCreate(Observed)
    \/ PortRead(Observed)
    \/ PortKill(Observed)
    \/ PortIsAlive(Observed)
    \/ ProcExit(Observed)

SpecPortable == Init /\ [][NextPortable]_vars

\* A direct caller of one backend of any kind.
NextPty ==
    \/ DrvCreate(Observed, Backends, {NoCwd})
    \/ DrvWrite(Observed, Commands)
    \/ DrvRead(Observed, OneChunk, {PtyBufferSize})
    \/ DrvKill(Observed)
    \/ DrvTryWait(Observed)
    \/ DrvIsAlive(Observed)
    \/ DrvResize(Observed)
    \/ ProcExit(Observed)
    \/ Background(Observed)

SpecPty == Init /\ [][NextPty]_vars

\* A caller that obtains its PTY from a selection function, for any
\* platform and shell table, and then checks, resizes and kills it.
NextSelect ==
    \/ SelCreate(Observed)
    \/ DrvIsAlive(Observed)
    \/ DrvResize(Observed)
    \/ DrvKill(Observed)
    \/ DrvTryWait(Observed)
    \/ ProcExit(Observed)

SpecSelect == Init /\ [][NextSelect]_vars

\* A caller of WindowsPty that writes and reads, the worker thread, and the
\* child.  The worker takes its steps, and a woken task is polled.
NextQueue ==
    \/ QCreate(Observed)
    \/ QWrite(Observed)
    \/ QRepoll(Observed)
    \/ QRead(Observed)
    \/ WorkerRead(Observed)
    \/ WorkerRecv(Observed)
    \/ ProcExit(Observed)

SpecQueue ==
    /\ Init
    /\ [][NextQueue]_vars
    /\ WF_vars(QRepoll(Observed))
    /\ WF_vars(WorkerRead(Observed))
    /\ WF_vars(WorkerRecv(Observed))

\* The observed task serves management requests while the other tasks run
\* sessions on the same registry.
NextRest ==
    \/ \E t \in Tasks \ {Observed} : Step(t, NoPayloads, OneChunk, UnixBuild)
    \/ RestGet(Observed)
    \/ RestResizeGet(Observed)
    \/ RestResizeUpdate(Observed)
    \/ RestTerminate(Observed)

SpecRest == Init /\ [][NextRest]_vars

\* A direct caller of the simulated backend that sends it command lines and
\* reads its output into a small buffer; the spawned tasks run.
ShellWrite(t) ==
    /\ Cardinality({i \in 1..Len(ops) : ops[i].op = "write"}) < MaxCmds
    /\ DrvWrite(t, ShellInputs)

NextShell ==
    \/ DrvCreate(Observed, MemoryBuild, Cwds)
    \/ ShellWrite(Observed)
    \/ DrvRead(Observed, OneChunk, Caps)
    \/ Background(Observed)

SpecShell ==
    /\ Init
    /\ [][NextShell]_vars
    /\ WF_vars(Background(Observed))

\* ------------------------------------------------- the session state machine
\* Created -> Active -> Closing -> Closed of the bridging engine.
ClosingPcs == {"close", "kill", "end_lock", "end_retain"}
ErrPcs == {"err_send", "err_close", "err_lock", "err_retain"}

Status(t) ==
    CASE pc[t] \in {"hts_lock", "hts_push", "create_pty"} \cup ErrPcs -> "Created"
      [] pc[t] \in {"loop", "parked"} -> "Active"
      [] pc[t] \in ClosingPcs -> "Closing"
      [] pc[t] = "done" -> "Closed"
      [] OTHER -> "None"

\* The names of the calls recorded for the observed task, in order.
CallNames == [i \in 1..Len(calls) |-> calls[i][1]]

\* The .await points of the handlers other than lock().await itself: a task
\* at one of them is suspended until the awaited operation completes.
AwaitPcs == {"create_pty", "loop", "parked", "err_send", "err_close", "close", "kill",
             "ws_welcome", "ws_loop"}

\* The task has a session id and has not returned yet.
Running(t) == conn_id[t] # NoId /\ pc[t] # "done"

\* The PTY handle exists and its process has not been seen to exit.
Live(p) == p.handle = "open" /\ ~p.child_exited

\* Task t returns from handle_terminal_session in this step.
HtsReturns(t) == handler[t] = "hts" /\ pc[t] # "done" /\ pc'[t] = "done"

\* A task spawned by the simulated backend of task t acts in this step: it
\* moves on or finishes (a write only appends a new task).
BgActed(t) ==
    \E i \in 1..Len(pty[t].bg) : i > Len(pty'[t].bg) \/ pty'[t].bg[i] # pty[t].bg[i]

\* From the creation of its PTY to its return the loop owns PTY and connection.
LoopLifetime == {"loop", "parked"} \cup ClosingPcs

\* The observed caller's operation in this step, if it made one.
OpDone(name) == ops' # ops /\ ops'[Len(ops')].op = name

\* ===================================================================== claims

\* C1: every run of handle_terminal_session removes the registry entry it
\* added, exactly once and itself, and its id is absent from the registry
\* when the run ends (whatever the exit path).
C1_RemovedExactlyOnceByRun ==
    [][\A t \in Tasks :
          HtsReturns(t) =>
              /\ Len(OwnedBy(sessions, t)) = 1
              /\ Len(OwnedBy(sessions', t)) = 0
              /\ conn_id[t] \notin Ids(sessions')]_vars

\* C2: on Closing the three cleanup actions (close the connection, kill the
\* PTY, remove the session) are all performed, in this order, whatever
\* close() and kill() return, and the session reaches Closed.
C2_CleanupNotShortCircuited ==
    (handler[Observed] = "hts" /\ lastEvent \in ExitEvents) =>
        /\ pc[Observed] \in ClosingPcs \cup {"done"}
        /\ pc[Observed] = "close" => CallNames = << >>
        /\ pc[Observed] = "kill" => CallNames = <<"close">>
        /\ pc[Observed] \in {"end_lock", "end_retain"} => CallNames = <<"close", "kill">>
        /\ pc[Observed] = "done" =>
              /\ CallNames = <<"close", "kill", "retain">>
              /\ connection[Observed] = "closed"
              /\ pty[Observed].kills = 1
              /\ OwnedBy(sessions, Observed) = << >>

\* C2 witness: the session is Closed although close() and kill() both failed.
C2_Witness ==
    /\ handler[Observed] = "hts"
    /\ pc[Observed] = "done"
    /\ calls = << <<"close", FALSE>>, <<"kill", FALSE>>, <<"retain", TRUE>> >>

\* C3: when PTY construction fails the engine sends the error text once, then
\* closes the connection, then removes the session, and ends without ever
\* being Active: no receive, no PTY read, write or kill.
C3_CreateFailurePath ==
    handler[Observed] = "hts" =>
        /\ pc[Observed] \in ErrPcs => lastEvent = "pty_failed"
        /\ lastEvent = "pty_failed" =>
              /\ pc[Observed] \in ErrPcs \cup {"done"}
              /\ pty[Observed] = NoPty
              /\ pc[Observed] = "err_send" => CallNames = << >>
              /\ pc[Observed] = "err_close" => CallNames = <<"send_text">>
              /\ pc[Observed] \in {"err_lock", "err_retain"} =>
                    CallNames = <<"send_text", "close">>
              /\ pc[Observed] = "done" =>
                    /\ CallNames = <<"send_text", "close", "retain">>
                    /\ connection[Observed] = "closed"
                    /\ OwnedBy(sessions, Observed) = << >>

\* C3 witness: a run whose PTY construction failed has ended.
C3_Witness ==
    /\ handler[Observed] = "hts"
    /\ pc[Observed] = "done"
    /\ lastEvent = "pty_failed"
    /\ Len(calls) = 3

C5_RemovesOnlyOwnEntry ==
    [][\A t \in Tasks :
          /\ (pc[t] \in {"hts_push", "ws_push"} /\ pc'[t] # pc[t]) =>
                sessions' = Append(sessions, Entry(conn_id'[t], t))
          /\ HtsReturns(t) =>
                /\ Len(OwnedBy(sessions, t)) = 1
                /\ sessions' = SelectSeq(sessions, LAMBDA e : e.owner # t)]_vars

\* C6: no two sessions that are registered or running at the same time carry
\* the same session id.
C6_SessionIdsUnique ==
    \A t, u \in Tasks :
        (t # u /\ Running(t) /\ Running(u)) => conn_id[t] # conn_id[u]

\* C7: for every session id in the registry whose bridging loop is running,
\* exactly one live PTY handle and exactly one live connection exist for
\* that id, both owned by that loop.
C7_OnePtyOneConnectionPerId ==
    \A t \in Tasks :
        (pc[t] = "loop" /\ conn_id[t] \in Ids(sessions)) =>
            /\ {u \in Tasks : conn_id[u] = conn_id[t] /\ Live(pty[u])} = {t}
            /\ {u \in Tasks : conn_id[u] = conn_id[t] /\ connection[u] = "open"} = {t}

\* C8: no task is suspended (waiting for the lock, for a message, for PTY
\* output or construction, for a send, close or kill) or has returned while
\* it holds the registry lock; the holder is always inside a critical
\* section that ends with the release of the lock.
C8_LockNotHeldAcrossAwait ==
    /\ \A t \in Tasks :
          pc[t] \in AwaitPcs \cup LockWait \cup {"idle", "done"} => lock # t
    /\ lock # 0 => pc[lock] \in {AfterLock(p) : p \in LockWait}

\* C8 witness: one task is suspended in the middle of its session while
\* another one holds the lock.
C8_Witness ==
    \E t, u \in Tasks : t # u /\ pc[t] \in {"create_pty", "loop"} /\ lock = u

\* C9: while Active, an inbound Close, end-of-stream, a connection error, a
\* PTY read error and a PTY write error each move the session to Closing, and
\* from Closing on no inbound message and no PTY output is processed.
C9Events == {"close_msg", "eos", "conn_err", "pty_read_err", "pty_write_err"}

C9_ExitEventsCloseTheLoop ==
    [][handler[Observed] = "hts" =>
          /\ (pc[Observed] = "loop" /\ lastEvent' \in C9Events) =>
                Status(Observed)' = "Closing"
          /\ Status(Observed) \in {"Closing", "Closed"} =>
                /\ Status(Observed)' \in {"Closing", "Closed"}
                /\ lastEvent' = lastEvent
                /\ accepted' = accepted
                /\ pty'[Observed].input = pty[Observed].input]_vars

\* C9 witness: the session was closed by a PTY write error.
C9_Witness ==
    /\ handler[Observed] = "hts"
    /\ lastEvent = "pty_write_err"
    /\ pc[Observed] = "done"

\* C10: the bytes written to the PTY are exactly the bytes of the Text and
\* Binary messages received, complete and in order; bytes of a message are
\* missing only when its write failed.
C10_WrittenVerbatim ==
    handler[Observed] = "hts" => pty[Observed].input = accepted

\* C11: every chunk the loop reads from the PTY while Active is non-empty and
\* is forwarded by exactly one send, with the bytes of the chunk, as a text
\* message when the chunk is valid UTF-8 and as a binary message otherwise,
\* before the loop reads again; only a failed send (which ends the loop)
\* loses a chunk, and nothing is sent outside such a step.
C11_ChunksForwardedVerbatim ==
    [][handler[Observed] = "hts" =>
          /\ (pc[Observed] = "loop" /\ lastEvent' \in {"output", "output_send_err"}) =>
                /\ Len(forwarded') = 1
                /\ LET c == forwarded'[1].chunk
                       m == forwarded'[1].msg
                       utf8 == \A i \in 1..Len(c) :
                                   /\ c[i] = 2 => (i < Len(c) /\ c[i + 1] = 3)
                                   /\ c[i] = 3 => (i > 1 /\ c[i - 1] = 2)
                   IN /\ c # << >>
                      /\ m.bytes = c
                      /\ m.kind = (IF utf8 THEN "text" ELSE "binary")
                /\ forwarded'[1].ok = (lastEvent' = "output")
          /\ forwarded' # forwarded =>
                /\ pc[Observed] = "loop"
                /\ lastEvent' \in {"output", "output_send_err"}]_vars

\* C11 witness: a chunk that is not valid UTF-8 was forwarded as binary and
\* the session is still Active.
C11_Witness ==
    /\ handler[Observed] = "hts"
    /\ pc[Observed] = "loop"
    /\ lastEvent = "output"
    /\ forwarded = <<[chunk |-> <<2>>, msg |-> [kind |-> "binary", bytes |-> <<2>>], ok |-> TRUE]>>

\* C12: once the PTY's liveness is false while the session is Active, the
\* session eventually is Closing (or Closed), without any further event from
\* the connection.  Runs that end in a panic (C15) are left aside.
C12_DeadPtyClosesSession ==
    (handler[Observed] = "hts" /\ pc[Observed] = "loop" /\ pty[Observed].child_exited)
        ~> (Status(Observed) \in {"Closing", "Closed"} \/ pc[Observed] = "panicked")

\* C13: the loop leaves Active only to Closing and only on an inbound Close,
\* end of stream, a connection error (a failed send included), PTY end of
\* output, a PTY read error or a PTY write error; after a Pong, an answered
\* Ping, a written Text/Binary message or a forwarded chunk it is still
\* Active.
C13_LeavesActiveOnlyByExit ==
    [][(handler[Observed] = "hts" /\ pc[Observed] = "loop") =>
          /\ pc'[Observed] # "loop" =>
                /\ Status(Observed)' = "Closing"
                /\ lastEvent' \in {"close_msg", "eos", "conn_err", "pong_send_err",
                                   "output_send_err", "pty_eof", "pty_read_err",
                                   "pty_write_err"}
          /\ lastEvent' \in {"pong", "ping", "text", "binary", "output"} =>
                Status(Observed)' = "Active"]_vars

\* C14: after shutdown has been signalled every session loop that is Active
\* eventually is Closing (or Closed).
C14_ShutdownClosesSessions ==
    \A t \in Tasks :
        (shutdown /\ handler[t] = "hts" /\ pc[t] = "loop")
            ~> (Status(t) \in {"Closing", "Closed"})

\* C15: no interleaving of a session's loop with its backend reaches a panic.
C15_NoPanic == \A t \in Tasks : pc[t] # "panicked"

\* C16: during the lifetime of the loop, the output buffer and the liveness
\* flag of its PTY change only in steps of the loop itself, never in a step
\* of another task.
C16_PtyOwnedByLoop ==
    [][(handler[Observed] = "hts" /\ pc[Observed] \in LoopLifetime /\ BgActed(Observed)) =>
          /\ pty'[Observed].out = pty[Observed].out
          /\ pty'[Observed].child_exited = pty[Observed].child_exited]_vars

\* C17: is_alive() is true right after creation, and it turns false only in
\* a step that is a kill() or a try_wait().
C17_AliveUntilKillOrWait ==
    [][handler'[Observed] = "drv" =>
          /\ pc[Observed] = "idle" => ~pty'[Observed].child_exited
          /\ (pc[Observed] = "drv" /\ ~pty[Observed].child_exited
                /\ pty'[Observed].child_exited) =>
                (OpDone("kill") \/ OpDone("try_wait"))]_vars

\* C18: every write attempted after a kill() has returned Ok fails with
\* BrokenPipe and delivers no byte.
C18_WriteAfterKillFails ==
    \A i, j \in 1..Len(ops) :
        (i < j /\ ops[i].op = "kill" /\ ops[i].res = "Ok" /\ ops[j].op = "write") =>
            (ops[j].res = "BrokenPipe" /\ ops[j].n = 0)

\* C19: on the simulated backend, after a write of "exit\n" has returned Ok,
\* is_alive() is false and every later write fails with BrokenPipe.
C19_ExitKillsSimulatedPty ==
    pty[Observed].kind = "memory" =>
        \A i, j \in 1..Len(ops) :
            (i < j /\ ops[i].op = "write" /\ ops[i].res = "Ok" /\ ops[i].data = <<4, 0>>) =>
                /\ ops[j].op = "write" => ops[j].res = "BrokenPipe"
                /\ ops[j].op = "is_alive" => ops[j].res = "false"

\* C20: after one try_wait() has returned a status, every later try_wait()
\* returns no status and every later is_alive() is false.
C20_StatusReportedOnce ==
    \A i, j \in 1..Len(ops) :
        (i < j /\ ops[i].op = "try_wait" /\ ops[i].res = "status") =>
            /\ ops[j].op = "try_wait" => ops[j].res # "status"
            /\ ops[j].op = "is_alive" => ops[j].res = "false"

\* C21: a try_wait() made while the process has not ended returns no status,
\* and the first try_wait() of a caller, made after the process has ended,
\* reports a status (unless the call itself fails).
C21_TryWaitReportsExit ==
    [][(handler[Observed] = "drv" /\ OpDone("try_wait")) =>
          LET res == ops'[Len(ops')].res
              first == \A i \in 1..Len(ops) : ops[i].op # "try_wait"
          IN /\ ~Ended(pty[Observed]) => res # "status"
             /\ (Ended(pty[Observed]) /\ first) => res \in {"status", "err"}]_vars

\* C22: a kill() on a PTY whose process has ended, or that a kill() has
\* already killed, returns Ok and changes nothing in the backend.
C22_KillIdempotent ==
    [][(handler[Observed] = "drv" /\ OpDone("kill")
          /\ (Ended(pty[Observed])
                \/ \E i \in 1..Len(ops) : ops[i].op = "kill" /\ ops[i].res = "Ok")) =>
          /\ ops'[Len(ops')].res = "Ok"
          /\ [pty'[Observed] EXCEPT !.kills = 0] = [pty[Observed] EXCEPT !.kills = 0]]_vars

\* C23: resize() on a PTY whose process is dead (killed, or exited) returns
\* ProcessTerminated or ResizeFailed, never Ok.
C23_ResizeOfDeadPtyFails ==
    [][(handler[Observed] = "drv" /\ OpDone("resize")
          /\ (Ended(pty[Observed]) \/ pty[Observed].child_exited)) =>
          ops'[Len(ops')].res \in {"ProcessTerminated", "ResizeFailed"}]_vars

\* C24: when the process has ended and no output is left (for the simulated
\* backend: the buffer is empty and no spawned task is still to append), a
\* read can return end of output: the reader is not left pending.
C24_DeadPtyReadEnds ==
    LET p == pty[Observed]
    IN (handler[Observed] = "drv" /\ pc[Observed] = "drv" /\ Ended(p)
          /\ p.out = << >> /\ p.bg = << >>) =>
          \E r \in PtyRead(p, OneChunk, PtyBufferSize) : r.res = "eof"

\* C25: on the simulated backend every read returns the first min(len, cap)
\* bytes of the output buffer, at least one, and removes exactly these from
\* its front; no other step removes or changes buffered bytes (they only
\* append), so what the reads return, joined, is a prefix of what was
\* appended; on an empty buffer a read returns nothing (it would block).
C25_ReadDrainsFront ==
    [][(handler[Observed] = "drv" /\ pty[Observed].kind = "memory") =>
          LET out == pty[Observed].out
              o == ops'[Len(ops')]
              len == Min(Len(out), o.n)
          IN IF OpDone("read")
             THEN /\ o.res = "data"
                  /\ len > 0
                  /\ o.data = SubSeq(out, 1, len)
                  /\ pty'[Observed].out = SubSeq(out, len + 1, Len(out))
             ELSE /\ Len(pty'[Observed].out) >= Len(out)
                  /\ SubSeq(pty'[Observed].out, 1, Len(out)) = out]_vars

\* C26: after a write of "pwd\n" to the live simulated backend has returned
\* Ok, the output (what is in the buffer or was read from it) eventually
\* contains the configured working directory, or "/" when none is
\* configured.
C26_PwdPrintsCwd ==
    LET dir == IF pty[Observed].cwd # NoCwd THEN 11 ELSE 12
    IN (\E i \in 1..Len(ops) :
           ops[i].op = "write" /\ ops[i].res = "Ok" /\ ops[i].data = <<5, 0>>)
          ~> (\/ \E j \in 1..Len(pty[Observed].out) : pty[Observed].out[j] = dir
              \/ \E i \in 1..Len(ops) :
                    /\ ops[i].op = "read"
                    /\ \E j \in 1..Len(ops[i].data) : ops[i].data[j] = dir)

\* C26 witness: "pwd\n" was written to a backend configured with "/tmp" and
\* the directory has been read from the output.
C26_Witness ==
    /\ pty[Observed].kind = "memory"
    /\ pty[Observed].cwd = "/tmp"
    /\ \E i \in 1..Len(ops) : ops[i].op = "write" /\ ops[i].data = <<5, 0>>
    /\ \E i \in 1..Len(ops) : ops[i].op = "read" /\ ops[i].data = <<11, 13>>

\* C27: the task spawned for a write appends, for each line of the input in
\* order: the listing for "ls", the working directory for "pwd", the given
\* text for "echo" followed by text, the exit message for "exit", the help
\* text for "help", "command not found" for any other non-empty line, and
\* nothing for an empty line.
C27_CommandResponses ==
    [][\A i \in 1..Len(pty[Observed].bg) :
          (pty[Observed].bg[i].pc = "out_locked"
             /\ Len(pty'[Observed].bg) < Len(pty[Observed].bg)) =>
             LET p == pty[Observed]
                 expected(l) ==
                     LET w == Trim(l)
                     IN CASE w = << >> -> << >>
                          [] w = <<8>> -> <<10>>
                          [] w = <<5>> -> IF p.cwd # NoCwd THEN <<11, 13>> ELSE <<12, 13>>
                          [] w = <<4>> -> <<14>>
                          [] w = <<9>> -> <<15>>
                          [] w # << >> /\ w[1] = 6 -> Trim(Tail(w)) \o <<13>>
                          [] OTHER -> <<16>> \o w \o <<13>>
                 ls == Lines(p.bg[i].data)
                 all == IF Len(ls) = 0 THEN << >>
                        ELSE IF Len(ls) = 1 THEN expected(ls[1])
                        ELSE expected(ls[1]) \o expected(ls[2])
             IN pty'[Observed].out = p.out \o all]_vars

\* C28: whenever the native factory failed, the selection function went on
\* to the simulated backend and returned a simulated PTY; an error is
\* returned only after the simulated backend was tried as well.
C28_FallsBackToSimulated ==
    /\ made.fn # "none" /\ made.native = "failed" =>
          /\ made.res = "memory"
          /\ made.tried[Len(made.tried)] = "memory"
    /\ made.fn # "none" /\ made.res = "Err" =>
          \E i \in 1..Len(made.tried) : made.tried[i] = "memory"

\* C29: when the shell table has no entry for the default shell type,
\* create_pty_from_config returns an error, with no other shell's
\* configuration taken and no factory invoked.
C29_UnknownShellFails ==
    (made.fn = "create_pty_from_config" /\ ~made.table.default) =>
        /\ made.res = "Err"
        /\ made.shell = "none"
        /\ made.tried = << >>

\* C30: a write on WindowsPty that found the write channel full is neither
\* dropped nor reported as written (it has no result while the task is
\* suspended, and when it completes with Ok its buffer is the last of the
\* channel), and once the worker has removed an item from the channel the
\* suspended writer is resumed and its write completes.
C30_FullQueueSuspendsWriter ==
    /\ [][pc[Observed] = "write_pending" =>
             \/ ops' = ops
             \/ /\ pc'[Observed] = "drv"
                /\ ops' = Append(ops, Op("write", ops'[Len(ops')].res,
                                         Len(pty[Observed].pend), pty[Observed].pend))
                /\ ops'[Len(ops')].res = "Ok" =>
                      /\ pty'[Observed].wq # << >>
                      /\ pty'[Observed].wq[Len(pty'[Observed].wq)] = pty[Observed].pend]_vars
    /\ (pc[Observed] = "write_pending" /\ pty[Observed].freed)
          ~> (/\ pc[Observed] = "drv"
              /\ ops # << >>
              /\ ops[Len(ops)].op = "write"
              /\ ops[Len(ops)].res = "Ok")

\* C31: on WindowsPty what the worker has written to the master is always
\* a prefix of the bytes the writes accepted, and while the child runs and
\* the worker has not returned, every accepted byte is eventually written to
\* the master, whether or not the child prints anything.
C31_AcceptedWritesReachMaster ==
    /\ [](\E n \in 0..Len(Accepted(ops)) :
             pty[Observed].input = SubSeq(Accepted(ops), 1, n))
    /\ (pty[Observed].kind = "windows" /\ pty[Observed].input # Accepted(ops))
          ~> \/ pty[Observed].input = Accepted(ops)
             \/ pty[Observed].proc # "running"
             \/ pty[Observed].worker = "gone"

\* C32: a get, resize or terminate request that names a session id which is
\* not in the registry when it is answered reports 404, never 500, and
\* leaves the registry as it was.
C32_UnknownIdIsNotFound ==
    [][(/\ ops' # ops
        /\ ops'[Len(ops')].op \in {"get", "resize", "terminate"}
        /\ ops'[Len(ops')].n \notin Ids(sessions))
          => /\ ops'[Len(ops')].res = "404"
             /\ sessions' = sessions]_vars

\* C33: while the observed session is Active on the simulated backend,
\* output in the buffer of its PTY is eventually forwarded (the buffer is
\* read empty) or the session leaves Active, also when the connection
\* delivers nothing more.
C33_OutputEventuallyForwarded ==
    (/\ Status(Observed) = "Active"
     /\ pty[Observed].kind = "memory"
     /\ pty[Observed].out # << >>)
       ~> (pty[Observed].out = << >> \/ Status(Observed) # "Active")

\* C34: a read of the backend reports 0 bytes only when the process has
\* exited; while the process runs a read reports data or an error, or does
\* not return, never 0 bytes.
C34_ZeroOnlyAtEndOfOutput ==
    [][(OpDone("read") /\ ops'[Len(ops')].res = "eof")
          => pty[Observed].proc # "running"]_vars

\* C39: once is_alive() has answered false for a PTY, no later is_alive()
\* of that PTY answers true.
C39_LivenessMonotonic ==
    \A i, j \in 1..Len(ops) :
        (/\ i < j
         /\ ops[i].op = "is_alive" /\ ops[j].op = "is_alive"
         /\ ops[i].res = "false")
           => ops[j].res # "true"

\* C35: what the reads of a native backend have returned is always a
\* prefix of what the child has printed, for every size of the caller's
\* buffer, and a read reports the end of the output only when everything
\* the child printed has been returned.
C35_ReadsReturnAllOutput ==
    [][/\ IsPrefix(Returned(ops'), pty'[Observed].printed)
       /\ (OpDone("read") /\ ops'[Len(ops')].res = "eof")
             => Returned(ops) = pty[Observed].printed]_vars

\* C36: the PtyConfig create_pty_from_config builds has the first element
\* of the shell's command list as its command, the remaining elements in
\* order as its arguments, and the environment and working directory of
\* the shell entry.
C36_ConfigFromShellEntry ==
    (made.fn = "create_pty_from_config" /\ made.shell # "panic") =>
        /\ made.config.command = <<Head(made.entry.command)>>
        /\ made.config.args = Tail(made.entry.command)
        /\ made.config.env = made.entry.environment
        /\ made.config.cwd = made.entry.working_directory

\* C37: the id of every session whose bridging loop is Active is in the
\* registry.
C37_ActiveSessionRegistered ==
    \A t \in Tasks :
        (handler[t] = "hts" /\ Status(t) = "Active") => conn_id[t] \in Ids(sessions)

\* C38: when handle_socket has returned, no entry it pushed is left in the
\* registry.
C38_SocketEntryRemoved ==
    \A t \in Tasks :
        (handler[t] = "ws" /\ pc[t] = "done") => OwnedBy(sessions, t) = << >>

\* C40: on the simulated backend, once the tasks of all writes have
\* finished and nothing has been read yet, the output buffer holds the
\* welcome text followed by the responses to the accepted writes in the
\* order the writes were issued.
C40_ResponsesInWriteOrder ==
    (/\ pty[Observed].kind = "memory"
     /\ pty[Observed].bg = << >>
     /\ \A i \in 1..Len(ops) : ops[i].op # "read")
       => pty[Observed].out = Welcome \o Response(Accepted(ops), pty[Observed].cwd)

====
